---- MODULE Spec2Model ----
(***************************************************************************)
(* The HTTP -> serial bridge of printer.js: the shared `port` / `opening`  *)
(* variables, tryOpen, the pollForPort loop and the HTTP handlers, run on  *)
(* Node's single-threaded event loop.  One action is one run-to-completion *)
(* segment of the code: a handler from the arrival of its request to its   *)
(* first suspension (or its response), or a callback of the serial handle  *)
(* together with everything that resumes synchronously behind it.          *)
(* The mobile screen of index.tsx, which prints the same receipt straight  *)
(* to its own serial device, is modelled beside it (SpecApp).              *)
(***************************************************************************)
EXTENDS Integers, Sequences, FiniteSets, TLC

\* ------------------------------------------------------------------ bounds
MaxHandles == 3
MaxReq == 2
MaxTicks == 2
MaxStr == 3
MaxPrints == 2
MaxWire == 2

Handles == 1..MaxHandles
Reqs == 1..MaxReq
Ticks == 1..MaxTicks
Prints == 1..MaxPrints

\* ------------------------------------------------------- configuration
SERIAL_PATH == "/dev/ttyUSB0"
OtherPath == "/dev/ttyS5"
Paths == {SERIAL_PATH, OtherPath}
BAUD == 9600
Secret == "mysecret"

ToLowerCase(p) ==
  CASE p = "/dev/ttyUSB0" -> "/dev/ttyusb0"
    [] p = "/dev/ttyS5" -> "/dev/ttys5"
    [] OTHER -> p

VARIABLES
  BRIDGE_SECRET,  \* process.env.BRIDGE_SECRET || ''
  AUTO_OPEN,      \* process.env.AUTO_OPEN === 'true'
  port,           \* `let port`: 0 is null, else the SerialPort object
  opening,        \* `let opening`
  hstate,         \* SerialPort object -> "none" | "opening" | "open" | "closing" | "closed"
  hpath,          \* SerialPort object -> the path it was constructed with
  hdisc,          \* SerialPort objects the serial library closes after a failed write
  wq,             \* SerialPort object -> its stream's queue of pending writes (requests)
  present,        \* the device paths attached to the machine
  req,            \* HTTP request slot -> the suspended handler in it
  poll,           \* invocation of pollForPort -> its position; "timer" is one scheduled
  alive,          \* FALSE once an uncaught exception ended the process
  out,            \* the HTTP response the last step sent, if any
  call,           \* the last call of asciiToHex: its argument and what came of it
  stationInfo,    \* index.tsx: the state `stationInfo` of the screen
  prints,         \* index.tsx: invocation of sendToPrinter -> its position
  wire,           \* index.tsx: the last chunks /dev/ttyS5 received, oldest first
  sigint          \* SerialPort objects the SIGINT handler called close() on

vars == <<BRIDGE_SECRET, AUTO_OPEN, port, opening, hstate, hpath, hdisc, wq,
          present, req, poll, alive, out, call, stationInfo, prints, wire, sigint>>

\* ------------------------------------------------------------- JS values
\* A JSON body field: a string (its characters), or undefined when absent.
Str(chars) == [t |-> "string", s |-> chars]
Undefined == [t |-> "undefined", s |-> <<>>]

HexDigits == <<"0", "1", "2", "3", "4", "5", "6", "7", "8", "9",
               "a", "b", "c", "d", "e", "f">>
HexUpper == <<"0", "1", "2", "3", "4", "5", "6", "7", "8", "9",
              "A", "B", "C", "D", "E", "F">>
IsHexChar(c) == \E i \in 1..16 : HexDigits[i] = c \/ HexUpper[i] = c
HexVal(c) == (CHOOSE i \in 1..16 : HexDigits[i] = c \/ HexUpper[i] = c) - 1

\* isHex without its test of the length.
isHex_AnyLength(v) ==
  /\ v.t = "string"
  /\ Len(v.s) >= 1
  /\ \A i \in 1..Len(v.s) : IsHexChar(v.s[i])

\* isHex(s): typeof s === 'string' && /^[0-9a-fA-F]+$/.test(s) && s.length % 2 === 0
isHex(v) ==
  /\ v.t = "string"
  /\ Len(v.s) >= 1
  /\ \A i \in 1..Len(v.s) : IsHexChar(v.s[i])
  /\ Len(v.s) % 2 = 0

\* Buffer.from(s, 'hex'): one byte per pair of hex digits, stopping at the
\* first pair that is not two hex digits (a trailing single digit is dropped).
HexPairs(s) ==
  LET m == Len(s) \div 2
      bad == {i \in 1..m : ~(IsHexChar(s[2 * i - 1]) /\ IsHexChar(s[2 * i]))}
  IN IF bad = {} THEN m
     ELSE (CHOOSE i \in bad : \A j \in bad : i <= j) - 1
BufferFromHex(s) ==
  [i \in 1..HexPairs(s) |-> 16 * HexVal(s[2 * i - 1]) + HexVal(s[2 * i])]

B64Alphabet ==
  <<"A", "B", "C", "D", "E", "F", "G", "H", "I", "J", "K", "L", "M",
    "N", "O", "P", "Q", "R", "S", "T", "U", "V", "W", "X", "Y", "Z",
    "a", "b", "c", "d", "e", "f", "g", "h", "i", "j", "k", "l", "m",
    "n", "o", "p", "q", "r", "s", "t", "u", "v", "w", "x", "y", "z",
    "0", "1", "2", "3", "4", "5", "6", "7", "8", "9", "+", "/">>
IsB64Char(c) == (\E i \in 1..64 : B64Alphabet[i] = c) \/ c = "-" \/ c = "_"
B64Val(c) ==
  IF c = "-" THEN 62
  ELSE IF c = "_" THEN 63
  ELSE (CHOOSE i \in 1..64 : B64Alphabet[i] = c) - 1

\* Buffer.from(s, 'base64'): the sextets of the base64 characters up to the
\* first '=' (other characters are skipped), packed into whole bytes.
RECURSIVE B64Sextets(_)
B64Sextets(s) ==
  IF s = <<>> \/ s[1] = "=" THEN <<>>
  ELSE IF IsB64Char(s[1]) THEN <<B64Val(s[1])>> \o B64Sextets(Tail(s))
  ELSE B64Sextets(Tail(s))
Pow2(n) == CASE n = 0 -> 1 [] n = 2 -> 4 [] n = 4 -> 16
BufferFromBase64(s) ==
  LET v == B64Sextets(s)
      n == (Len(v) * 6) \div 8
  IN [k \in 1..n |->
        LET bit == 8 * (k - 1)
            j == (bit \div 6) + 1
            o == bit % 6
        IN ((v[j] * 64 + v[j + 1]) \div Pow2(4 - o)) % 256]

\* ------------------------------------------------------------ responses
NoResp ==
  [kind |-> "none", status |-> 0, error |-> "", opened |-> FALSE,
   path |-> "", baud |-> 0, bytes |-> 0, usedDefaults |-> FALSE,
   serialOpen |-> FALSE]
\* res.status(status).json({ error })  /  res.json({ ok: true, ... })
Resp(kind, status, error) ==
  [NoResp EXCEPT !.kind = kind, !.status = status, !.error = error]

Idle ==
  [pc |-> "idle", kind |-> "none", h |-> 0, path |-> "", baud |-> 0,
   buf |-> <<>>, wh |-> 0, dh |-> 0, usedDefaults |-> FALSE, cut |-> FALSE]

\* ------------------------------------------------------------ the Link
\* `port && port.isOpen`: the stream's isOpen is false while it opens or closes.
IsOpen(h) == h # 0 /\ hstate[h] = "open"
PortIsOpen == IsOpen(port)

\* The handles the operating system holds open (a closing one until its close ends).
OsOpen == {h \in Handles : hstate[h] \in {"open", "closing"}}
Used == {h \in Handles : hstate[h] # "none"}
NewHandle == CHOOSE h \in Handles \ Used : \A g \in Handles \ Used : h <= g
CanAcquire == Handles \ Used # {}

\* authMiddleware letting any request with a credential header through.
authMiddleware_AnyHeader(hd) ==
  BRIDGE_SECRET = "" \/ hd.xbs # "" \/ hd.authz # ""

\* authMiddleware: the headers x-bridge-secret and authorization of a request.
authMiddleware(hd) ==
  \/ BRIDGE_SECRET = ""
  \/ LET auth == IF hd.xbs # "" THEN hd.xbs ELSE hd.authz
     IN auth = BRIDGE_SECRET \/ auth = "Bearer " \o BRIDGE_SECRET

Unauthorized(kind) == Resp(kind, 401, "unauthorized")

\* tryOpen without its in-progress flag.
TryOpenReturns_NoFlag == PortIsOpen

\* tryOpen, line 49: `if (opening || (port && port.isOpen)) return;`
TryOpenReturns == opening \/ PortIsOpen

\* tryOpen, lines 50-60: opening = true; port = new SerialPort(...); the three
\* listeners; port.open(cb) and the await.
TryOpenStart(path) ==
  /\ opening' = TRUE
  /\ port' = NewHandle
  /\ hstate' = [hstate EXCEPT ![NewHandle] = "opening"]
  /\ hpath' = [hpath EXCEPT ![NewHandle] = path]

\* line 53: every handle is made with `baudRate: BAUD`, whatever the request asked.
HandleBaud(h) == BAUD

\* A 'close' listener that only logs, as the 'error' listener of line 55 does.
CloseListener_LogsOnly(h) == port

\* The 'close' listener of every handle tryOpen made: `port = null`.
CloseListener(h) == 0

\* ------------------------------------------------- pollForPort's ticks
\* No invocation of pollForPort in this slot, neither scheduled nor running.
NoTick == [pc |-> "none", h |-> 0]

\* line 80, in the finally: setTimeout(pollForPort, POLL_MS) as the tick ends.
PollFinally(pl, t) == [pl EXCEPT ![t] = [pc |-> "timer", h |-> 0]]

\* The tick calling setTimeout(pollForPort, POLL_MS) before it awaits tryOpen.
PollAwait_TimerFirst(pl, t, h) ==
  LET free == {u \in Ticks : pl[u].pc = "none"}
      w == [pl EXCEPT ![t] = [pc |-> "await_open", h |-> h]]
  IN IF free = {} THEN w
     ELSE [w EXCEPT ![CHOOSE u \in free : \A v \in free : u <= v] =
             [pc |-> "timer", h |-> 0]]

\* line 75: the tick is suspended at `await tryOpen(SERIAL_PATH)`.
PollAwait(pl, t, h) == [pl EXCEPT ![t] = [pc |-> "await_open", h |-> h]]

\* ------------------------------------------------------------ POST /open
OpenResp(r, isopen) ==
  [Resp("open", 200, "") EXCEPT
     !.opened = isopen, !.path = req[r].path, !.baud = req[r].baud]

OpenReq(r, hd, path, baud) ==
  /\ alive
  /\ req[r].pc = "idle"
  /\ IF ~authMiddleware(hd)
     THEN /\ out' = Unauthorized("open")
          /\ UNCHANGED <<port, opening, hstate, hpath, req>>
     ELSE LET p == IF path = "" THEN SERIAL_PATH ELSE path
              b == IF baud = 0 THEN BAUD ELSE baud
          IN IF TryOpenReturns
             THEN /\ out' = [Resp("open", 200, "") EXCEPT
                               !.opened = PortIsOpen, !.path = p, !.baud = b]
                  /\ UNCHANGED <<port, opening, hstate, hpath, req>>
             ELSE /\ CanAcquire
                  /\ TryOpenStart(p)
                  /\ req' = [req EXCEPT ![r] =
                       [Idle EXCEPT !.pc = "await_open", !.kind = "open",
                                    !.h = NewHandle, !.path = p, !.baud = b]]
                  /\ out' = NoResp
  /\ UNCHANGED <<sigint, stationInfo, prints, wire, call, BRIDGE_SECRET, AUTO_OPEN, hdisc, wq, present, poll, alive>>

\* ------------------------------------------------- the handle's open ends
\* port.open's callback: the exclusive lock on the device makes a second open
\* of a path fail while another handle holds it.
CanOpenOk(h) ==
  /\ hpath[h] \in present
  /\ \A g \in OsOpen : hpath[g] # hpath[h]

\* drain() calls queued on the handle's 'open' event start when it opens.
StartQueuedDrains(rq, h) ==
  [r \in Reqs |->
     IF rq[r].pc = "drain_wait" /\ rq[r].dh = h
     THEN [rq[r] EXCEPT !.pc = "draining"] ELSE rq[r]]

\* `opening = false` placed at the end of the try block, not in a finally.
TryOpenFinally_InTry(ok) == ~ok

\* tryOpen, lines 64-66: finally { opening = false }, after success and failure.
TryOpenFinally(ok) == FALSE

OpenDone(h, ok) ==
  /\ alive
  /\ hstate[h] = "opening"
  /\ ok => CanOpenOk(h)
  /\ hstate' = [hstate EXCEPT ![h] = IF ok THEN "open" ELSE "closed"]
  \* tryOpen, lines 61-66: catch { port = null } finally { opening = false }
  /\ port' = IF ok THEN port ELSE 0
  /\ opening' = TryOpenFinally(ok)
  /\ LET rq == IF ok THEN StartQueuedDrains(req, h) ELSE req
         isopen == port' # 0 /\ hstate'[port'] = "open"
     IN \/ \E t \in Ticks :
             /\ poll[t].pc = "await_open" /\ poll[t].h = h
             /\ poll' = PollFinally(poll, t)
             /\ req' = rq
             /\ out' = NoResp
        \/ \E r \in Reqs :
             /\ req[r].pc = "await_open" /\ req[r].h = h
             \* POST /open, line 115
             /\ out' = OpenResp(r, isopen)
             /\ req' = [rq EXCEPT ![r] = Idle]
             /\ UNCHANGED poll
  /\ UNCHANGED <<sigint, stationInfo, prints, wire, call, BRIDGE_SECRET, AUTO_OPEN, hpath, hdisc, wq, present, alive>>

\* ----------------------------------------------------------- POST /close
\* POST /close without `port &&`: port.close() on null throws into the catch.
CloseReq_NoNullCheck(r, hd) ==
  /\ alive
  /\ req[r].pc = "idle"
  /\ IF ~authMiddleware(hd)
     THEN /\ out' = Unauthorized("close")
          /\ UNCHANGED <<hstate, req>>
     ELSE IF PortIsOpen
          THEN /\ hstate' = [hstate EXCEPT ![port] = "closing"]
               /\ req' = [req EXCEPT ![r] =
                    [Idle EXCEPT !.pc = "await_close", !.kind = "close", !.h = port]]
               /\ out' = NoResp
          ELSE /\ out' = IF port = 0 THEN Resp("close", 500, "TypeError")
                                    ELSE Resp("close", 200, "")
               /\ UNCHANGED <<hstate, req>>
  /\ UNCHANGED <<sigint, stationInfo, prints, wire, call, BRIDGE_SECRET, AUTO_OPEN, port, opening, hpath, hdisc, wq,
                 present, poll, alive>>

\* POST /close, lines 122-132
CloseReq(r, hd) ==
  /\ alive
  /\ req[r].pc = "idle"
  /\ IF ~authMiddleware(hd)
     THEN /\ out' = Unauthorized("close")
          /\ UNCHANGED <<hstate, req>>
     ELSE IF PortIsOpen
          THEN /\ hstate' = [hstate EXCEPT ![port] = "closing"]
               /\ req' = [req EXCEPT ![r] =
                    [Idle EXCEPT !.pc = "await_close", !.kind = "close", !.h = port]]
               /\ out' = NoResp
          ELSE /\ out' = Resp("close", 200, "")
               /\ UNCHANGED <<hstate, req>>
  /\ UNCHANGED <<sigint, stationInfo, prints, wire, call, BRIDGE_SECRET, AUTO_OPEN, port, opening, hpath, hdisc, wq,
                 present, poll, alive>>

\* The handle's close ends: the 'close' event runs the listener, then the
\* callback of POST /close resumes it (line 126: port = null) and it responds;
\* the SIGINT handler that awaited this close calls process.exit(0) (line 284).
CloseDone(h) ==
  /\ alive
  /\ hstate[h] = "closing"
  /\ hstate' = [hstate EXCEPT ![h] = "closed"]
  /\ port' = CloseListener(h)
  /\ IF \E r \in Reqs : req[r].pc = "await_close" /\ req[r].h = h
     THEN LET r == CHOOSE r \in Reqs : req[r].pc = "await_close" /\ req[r].h = h
          IN /\ req' = [req EXCEPT ![r] = Idle]
             /\ out' = Resp("close", 200, "")
     ELSE /\ out' = NoResp
          /\ UNCHANGED req
  /\ alive' = IF h \in sigint THEN FALSE ELSE alive
  /\ UNCHANGED <<sigint, stationInfo, prints, wire, call, BRIDGE_SECRET, AUTO_OPEN,
                 opening, hpath, hdisc, wq, present, poll>>

\* process.on('SIGINT'), lines 281-285: an open recorded handle is closed and
\* the process exits when that close has ended; with none it exits at once.
SIGINT ==
  /\ alive
  /\ IF PortIsOpen
     THEN /\ hstate' = [hstate EXCEPT ![port] = "closing"]
          /\ sigint' = sigint \cup {port}
          /\ alive' = alive
     ELSE /\ alive' = FALSE
          /\ UNCHANGED <<hstate, sigint>>
  /\ out' = NoResp
  /\ UNCHANGED <<stationInfo, prints, wire, call, BRIDGE_SECRET, AUTO_OPEN, port,
                 opening, hpath, hdisc, wq, present, req, poll>>

\* ----------------------------------------------------------- the device
\* The device at a path is unplugged.  Nothing in printer.js reads from the
\* handle, so nothing notices: a handle open on the device stays open and
\* recorded until a write on it fails.  `cut` marks the writes that are in
\* flight on such a handle at this moment.
InFlightOn(r, p) ==
  /\ req[r].pc \in {"writing", "write_stuck", "drain_wait", "draining"}
  /\ hstate[req[r].wh] = "open" /\ hpath[req[r].wh] = p
DeviceRemoved(p) ==
  /\ alive
  /\ p \in present
  /\ present' = present \ {p}
  /\ req' = [r \in Reqs |->
       IF InFlightOn(r, p) THEN [req[r] EXCEPT !.cut = TRUE] ELSE req[r]]
  /\ out' = NoResp
  /\ UNCHANGED <<sigint, stationInfo, prints, wire, call, BRIDGE_SECRET, AUTO_OPEN, port, opening, hstate, hpath, hdisc, wq, poll, alive>>

DeviceAttached(p) ==
  /\ alive
  /\ p \notin present
  /\ present' = present \cup {p}
  /\ out' = NoResp
  /\ UNCHANGED <<sigint, stationInfo, prints, wire, call, BRIDGE_SECRET, AUTO_OPEN, port, opening, hstate, hpath, hdisc,
                 wq, req, poll, alive>>

\* ---------------------------------------------------------- pollForPort
\* setTimeout(pollForPort, POLL_MS) fires: line 72 calls SerialPort.list().
PollTimer(t) ==
  /\ alive
  /\ poll[t].pc = "timer"
  /\ poll' = [poll EXCEPT ![t] = [pc |-> "listing", h |-> 0]]
  /\ out' = NoResp
  /\ UNCHANGED <<sigint, stationInfo, prints, wire, call, BRIDGE_SECRET, AUTO_OPEN, port, opening, hstate, hpath, hdisc,
                 wq, present, req, alive>>

\* line 73: list.find(p => p.path === SERIAL_PATH || p.path === SERIAL_PATH.toLowerCase())
Found(list) == \E p \in list : p = SERIAL_PATH \/ p = ToLowerCase(SERIAL_PATH)

\* SerialPort.list() ends: lines 73-80.
PollListed(t, ok) ==
  /\ alive
  /\ poll[t].pc = "listing"
  /\ IF ok /\ Found(present) /\ ~PortIsOpen /\ ~TryOpenReturns
     THEN /\ CanAcquire
          /\ TryOpenStart(SERIAL_PATH)
          /\ poll' = PollAwait(poll, t, NewHandle)
     ELSE /\ poll' = PollFinally(poll, t)
          /\ UNCHANGED <<port, opening, hstate, hpath>>
  /\ out' = NoResp
  /\ UNCHANGED <<sigint, stationInfo, prints, wire, call, BRIDGE_SECRET, AUTO_OPEN, hdisc, wq, present, req, alive>>

\* ----------------------------------------------------------- GET /health
\* The response of GET /health, lines 90-96: it reads the state and changes none.
Health ==
  [Resp("health", 200, "") EXCEPT !.path = SERIAL_PATH, !.serialOpen = PortIsOpen]

\* GET /health, registered without authMiddleware (line 90).
HealthReq ==
  /\ alive
  /\ out' = Health
  /\ UNCHANGED <<sigint, stationInfo, prints, wire, call, BRIDGE_SECRET, AUTO_OPEN, port, opening, hstate, hpath, hdisc,
                 wq, present, req, poll, alive>>

\* ------------------------------------------------------- asciiToHex
Chars(str) == [i \in 1..Len(str) |-> SubSeq(str, i, i)]

\* The printable ASCII characters by code, 32 to 126; the double quote (34),
\* the backslash (92) and the backquote (96) are left out of the inputs and
\* hold a place here.
Ascii ==
  Chars(" !") \o <<"">> \o Chars("#$%&'()*+,-./0123456789:;<=>?@")
  \o Chars("ABCDEFGHIJKLMNOPQRSTUVWXYZ[") \o <<"">>
  \o Chars("]^_") \o <<"">> \o Chars("abcdefghijklmnopqrstuvwxyz{|}~")
\* str.charCodeAt(i) for every i: a JS string as its UTF-16 code units.
Codes(str) ==
  [i \in 1..Len(str) |->
     31 + (CHOOSE k \in 1..Len(Ascii) : Ascii[k] = SubSeq(str, i, i))]

\* n.toString(16)
RECURSIVE ToString16(_)
ToString16(n) ==
  IF n < 16 THEN <<HexDigits[n + 1]>>
  ELSE ToString16(n \div 16) \o <<HexDigits[(n % 16) + 1]>>
\* s.padStart(2, '0')
PadStart2(s) == IF Len(s) < 2 THEN <<"0">> \o s ELSE s
\* s.toUpperCase(), of hex digits
ToUpperCase(s) ==
  [i \in 1..Len(s) |-> HexUpper[CHOOSE k \in 1..16 : HexDigits[k] = s[i]]]

\* asciiToHex(str), lines 165-173
RECURSIVE asciiToHexLower(_)
asciiToHexLower(str) ==
  IF str = <<>> THEN <<>>
  ELSE PadStart2(ToString16(Head(str))) \o asciiToHexLower(Tail(str))
asciiToHex(str) == ToUpperCase(asciiToHexLower(str))

\* ---------------------------------------------------- POST /print-voucher
\* `now`: one value of the clock; toDateString() and toISOString() of it.
NowDateString == Codes("Fri Sep 26 2025")
NowISOString == Codes("2025-09-26T12:34:56.000Z")

defaultStation ==
  [name |-> Codes("My Station"), address |-> Codes("123 Main St"),
   city |-> Codes("Yangon"), state |-> Codes("MM"),
   phone1 |-> Codes("09-123456789"), phone2 |-> Codes("09-987654321")]
defaultVoucher ==
  [dailyReportDate |-> NowDateString, createAt |-> NowISOString,
   nozzleNo |-> Codes("01"), vocono |-> Codes("VC123456"),
   salePrice |-> Codes("2530"), saleLiter |-> Codes("10.50"),
   totalPrice |-> Codes("26565"), fuelType |-> Codes("OCTANE 95")]

\* Object.assign({}, a, b)
Assign(a, b) ==
  [f \in (DOMAIN a) \cup (DOMAIN b) |-> IF f \in DOMAIN b THEN b[f] ELSE a[f]]
NoFields == [f \in {} |-> <<>>]
\* body.station || {}
Field(body, key) == IF key \in DOMAIN body THEN body[key] ELSE NoFields

\* str.slice(11, 19)
Slice11to19(str) ==
  IF Len(str) <= 11 THEN <<>>
  ELSE SubSeq(str, 12, IF Len(str) < 19 THEN Len(str) ELSE 19)

Rule == Chars("2D2D2D2D2D2D2D2D2D2D2D2D2D2D2D2D2D2D2D2D2D2D2D2D2D2D2D2D0A")
LF == Chars("0A")

\* lines 208-251: the merged fields, their hex, and hexChunks.join('')
fullHex(body) ==
  LET station == Assign(defaultStation, Field(body, "station"))
      voucher == Assign(Assign(defaultVoucher, Field(body, "voucher")),
                        Field(body, "data"))
      stationName == asciiToHex(station.name)
      location == asciiToHex(station.address \o Codes(", ") \o station.city
                             \o Codes(", ") \o station.state)
      phone1Hex == asciiToHex(station.phone1)
      phone2Hex == asciiToHex(station.phone2)
      dateHex == asciiToHex(voucher.dailyReportDate)
      timeHex == asciiToHex(Slice11to19(voucher.createAt))
      nozzleHex == asciiToHex(voucher.nozzleNo)
      voconoHex == asciiToHex(voucher.vocono)
      basePriceHex == asciiToHex(voucher.salePrice)
      literHex == asciiToHex(voucher.saleLiter)
      totalHex == asciiToHex(voucher.totalPrice)
      fuelHex == asciiToHex(voucher.fuelType)
  IN Chars("1B401B6101") \o stationName \o LF
     \o location \o LF
     \o phone1Hex \o Chars("2C20") \o phone2Hex \o LF
     \o Chars("1B6100")
     \o Rule
     \o Chars("564F434F4E4F202020") \o voconoHex \o LF
     \o Chars("444154452020202020") \o dateHex \o LF
     \o Chars("54494D452020202020") \o timeHex \o LF
     \o Chars("4E4F5A5A4C45202020") \o nozzleHex \o LF
     \o Rule
     \o Chars("4655454C20202020") \o fuelHex \o LF
     \o Chars("4241534520505249434520202020") \o basePriceHex
        \o Chars("204D4D4B202F204C495445520A")
     \o Chars("53414C45204C4954455253202020") \o literHex \o Chars("204C490A")
     \o Chars("544F54414C202020202020202020") \o totalHex \o Chars("204D4D4B0A")
     \o Chars("202020202020202020202020202028494E434C555349564520544158290A")
     \o Rule
     \o Chars("1B6101")
     \o Chars("5448414E4B20594F5520464F52205649534954494E470A")
     \o Chars("1B6401")
     \o Chars("1D564100")

\* line 209 and line 216: String(voucher.createAt) of the merged voucher.
createAt(body) ==
  Assign(Assign(defaultVoucher, Field(body, "voucher")), Field(body, "data")).createAt

\* asciiToHex(str) is called and returns.
NoCall == [str |-> <<>>, hex |-> <<>>, done |-> FALSE]
AsciiToHexCall(str) ==
  /\ call' = [str |-> str, hex |-> asciiToHex(str), done |-> TRUE]
  /\ UNCHANGED <<sigint, stationInfo, prints, wire, BRIDGE_SECRET, AUTO_OPEN, port, opening,
                 hstate, hpath, hdisc, wq, present, req, poll, alive, out>>

\* line 258: !req.body || Object.keys(req.body).length === 0
usedDefaults(body) == DOMAIN body = {}

\* ------------------------------------------------------------- writes
\* The not-open test of the write handlers without `!port`.
NotOpen_NoNullCheck == port # 0 /\ hstate[port] # "open"

\* `if (!port || !port.isOpen) return res.status(503)...`
NotOpen == ~PortIsOpen

\* port.write(buf, cb): the stream queues the write behind the pending ones.
PortWrite(r, kind, buf, defaults) ==
  /\ wq' = [wq EXCEPT ![port] = Append(@, r)]
  /\ req' = [req EXCEPT ![r] =
       [Idle EXCEPT !.pc = "writing", !.kind = kind, !.buf = buf, !.wh = port,
                    !.usedDefaults = defaults]]
  /\ out' = NoResp

Reject(kind, status, error) ==
  /\ out' = Resp(kind, status, error)
  /\ UNCHANGED <<wq, req>>

\* POST /write-hex with its two checks in the other order.
WriteHexReq_OpenFirst(r, hd, hex) ==
  /\ alive
  /\ req[r].pc = "idle"
  /\ IF ~authMiddleware(hd) THEN Reject("write-hex", 401, "unauthorized")
     ELSE IF NotOpen THEN Reject("write-hex", 503, "serial not open")
     ELSE IF ~isHex(hex) THEN Reject("write-hex", 400, "invalid hex")
     ELSE PortWrite(r, "write-hex", BufferFromHex(hex.s), FALSE)
  /\ UNCHANGED <<sigint, stationInfo, prints, wire, call, BRIDGE_SECRET, AUTO_OPEN, port, opening, hstate, hpath, hdisc,
                 present, poll, alive>>

\* POST /write-hex, lines 135-147
WriteHexReq(r, hd, hex) ==
  /\ alive
  /\ req[r].pc = "idle"
  /\ IF ~authMiddleware(hd) THEN Reject("write-hex", 401, "unauthorized")
     ELSE IF ~isHex(hex) THEN Reject("write-hex", 400, "invalid hex")
     ELSE IF NotOpen THEN Reject("write-hex", 503, "serial not open")
     ELSE PortWrite(r, "write-hex", BufferFromHex(hex.s), FALSE)
  /\ UNCHANGED <<sigint, stationInfo, prints, wire, call, BRIDGE_SECRET, AUTO_OPEN, port, opening, hstate, hpath, hdisc,
                 present, poll, alive>>

\* POST /write-base64, lines 150-162
WriteBase64Req(r, hd, b64) ==
  /\ alive
  /\ req[r].pc = "idle"
  /\ IF ~authMiddleware(hd) THEN Reject("write-base64", 401, "unauthorized")
     ELSE IF b64.t = "undefined" \/ b64.s = <<>>
          THEN Reject("write-base64", 400, "missing b64")
     ELSE IF NotOpen THEN Reject("write-base64", 503, "serial not open")
     ELSE PortWrite(r, "write-base64", BufferFromBase64(b64.s), FALSE)
  /\ UNCHANGED <<sigint, stationInfo, prints, wire, call, BRIDGE_SECRET, AUTO_OPEN, port, opening, hstate, hpath, hdisc,
                 present, poll, alive>>

\* POST /write-binary arrives, line 267: authMiddleware, then express.raw.  A
\* request that is not an application/octet-stream body goes straight on to
\* the handler with req.body = {}; an octet-stream body is read first, and the
\* handler runs in a later turn of the event loop.
WriteBinaryReq(r, hd, body) ==
  /\ alive
  /\ req[r].pc = "idle"
  /\ IF ~authMiddleware(hd) THEN Reject("write-binary", 401, "unauthorized")
     ELSE IF body.t # "buffer"
          THEN Reject("write-binary", 400, "missing binary body")
     ELSE /\ req' = [req EXCEPT ![r] =
               [Idle EXCEPT !.pc = "reading", !.kind = "write-binary", !.buf = body.s]]
          /\ out' = NoResp
          /\ UNCHANGED wq
  /\ UNCHANGED <<sigint, stationInfo, prints, wire, call, BRIDGE_SECRET, AUTO_OPEN, port, opening, hstate, hpath, hdisc,
                 present, poll, alive>>

\* express.raw has read the body: the handler of POST /write-binary, lines
\* 268-277, with req.body the Buffer.
WriteBinaryBody(r) ==
  /\ alive
  /\ req[r].pc = "reading"
  /\ IF NotOpen
     THEN /\ out' = Resp("write-binary", 503, "serial not open")
          /\ req' = [req EXCEPT ![r] = Idle]
          /\ UNCHANGED wq
     ELSE PortWrite(r, "write-binary", req[r].buf, FALSE)
  /\ UNCHANGED <<sigint, stationInfo, prints, wire, call, BRIDGE_SECRET, AUTO_OPEN, port, opening, hstate, hpath, hdisc,
                 present, poll, alive>>

\* The bodies of the print-voucher requests.
VoucherInputs ==
  {NoFields,
   [station |-> NoFields, voucher |-> NoFields],
   [station |-> [name |-> Codes("Fuel Station A")],
    voucher |-> [createAt |-> Codes("12:34"), vocono |-> Codes("VC987654")]],
   [voucher |-> [createAt |-> Codes("2025-09-26T12:34")]]}

\* lines 250-251: buf = Buffer.from(hexChunks.join(''), 'hex'), for every body
\* of VoucherInputs.
ReceiptBuf == [body \in VoucherInputs |-> BufferFromHex(fullHex(body))]

\* POST /print-voucher, lines 182-264
PrintVoucherReq(r, hd, body) ==
  /\ alive
  /\ req[r].pc = "idle"
  /\ IF ~authMiddleware(hd) THEN Reject("print-voucher", 401, "unauthorized")
     ELSE IF NotOpen THEN Reject("print-voucher", 503, "serial not open")
     ELSE PortWrite(r, "print-voucher", ReceiptBuf[body], usedDefaults(body))
  /\ UNCHANGED <<sigint, stationInfo, prints, wire, call, BRIDGE_SECRET, AUTO_OPEN, port, opening, hstate, hpath, hdisc,
                 present, poll, alive>>

\* The write callback with no error calls `port.drain(cb)` on whatever `port`
\* is by then: a TypeError when it is null; queued on the handle's 'open'
\* event when that handle is not open; else the drain starts.
AfterWrite(r) ==
  IF port = 0 THEN [req[r] EXCEPT !.pc = "thrown"]
  ELSE IF IsOpen(port) THEN [req[r] EXCEPT !.pc = "draining", !.dh = port]
  ELSE [req[r] EXCEPT !.pc = "drain_wait", !.dh = port]

\* The stream's next queued write starts when the one before it succeeded:
\* _write waits for the 'open' event when the handle is not open.
NextWrite(rq, h, ok) ==
  IF Len(wq[h]) >= 2 /\ ok /\ hstate[h] # "open"
  THEN [rq EXCEPT ![wq[h][2]].pc = "write_stuck"]
  ELSE rq

\* The handle's write of the request at the head of its queue ends, with or
\* without an error.  A failed write fails the stream: the callback answers
\* 500 (line 141), every write queued behind it on the handle fails with the
\* same error and is answered 500 too, and the stream is destroyed, emitting
\* 'error' (line 55, logged) and 'close', whose listener sets port = null
\* (line 58), all within this turn.  The serial library starts closing a
\* handle whose write the operating system failed; a write cancelled by a
\* close already under way leaves the handle to that close.
Queued(h) == {q \in Reqs : \E i \in 1..Len(wq[h]) : wq[h][i] = q}
WriteDone(r, ok) ==
  /\ alive
  /\ req[r].pc = "writing"
  /\ LET h == req[r].wh
         lost == ~ok /\ hstate[h] = "open"
     IN /\ wq[h] # <<>> /\ Head(wq[h]) = r
        /\ ok => hstate[h] \in {"open", "closing"}
        /\ wq' = [wq EXCEPT ![h] = IF ok THEN Tail(@) ELSE <<>>]
        /\ hstate' = IF lost THEN [hstate EXCEPT ![h] = "closing"] ELSE hstate
        /\ hdisc' = IF lost THEN hdisc \cup {h} ELSE hdisc
        /\ port' = IF ok THEN port ELSE CloseListener(h)
        /\ IF ok
           THEN /\ req' = NextWrite([req EXCEPT ![r] = AfterWrite(r)], h, ok)
                /\ out' = NoResp
                \* an exception no one catches ends the process, or only the request
                /\ IF port = 0 THEN alive' \in BOOLEAN ELSE alive' = alive
           ELSE /\ req' = [q \in Reqs |-> IF q \in Queued(h) THEN Idle ELSE req[q]]
                /\ out' = Resp(req[r].kind, 500, "write error")
                /\ alive' = alive
  /\ UNCHANGED <<sigint, stationInfo, prints, wire, call, BRIDGE_SECRET, AUTO_OPEN, opening, hpath,
                 present, poll>>

\* The drain callback: lines 142-145.
DrainResp(r, ok) ==
  IF ok
  THEN [Resp(req[r].kind, 200, "") EXCEPT
          !.bytes = Len(req[r].buf), !.usedDefaults = req[r].usedDefaults]
  ELSE Resp(req[r].kind, 500, "drain error")

\* The handle's drain ends, with or without an error: the operating system
\* may fail the drain of an open handle, and the drain of a handle that is
\* closed by then fails.  A failed drain changes nothing of the handle.
DrainDone(r, ok) ==
  /\ alive
  /\ req[r].pc = "draining"
  /\ ok => hstate[req[r].dh] \in {"open", "closing"}
  /\ out' = DrainResp(r, ok)
  /\ req' = [req EXCEPT ![r] = Idle]
  /\ UNCHANGED <<sigint, stationInfo, prints, wire, call, BRIDGE_SECRET, AUTO_OPEN, port, opening, hstate, hpath, hdisc,
                 wq, present, poll, alive>>

\* ------------------------------------------------------------- inputs
NoHeaders == [xbs |-> "", authz |-> ""]
Headers ==
  {NoHeaders,
   [xbs |-> Secret, authz |-> ""],
   [xbs |-> "", authz |-> "Bearer " \o Secret],
   [xbs |-> "wrong", authz |-> Secret],
   [xbs |-> "wrong", authz |-> ""]}
OpenPaths == {"", SERIAL_PATH, OtherPath}
OpenBauds == {0, 115200}
HexInputs ==
  {Undefined, Str(<<>>), Str(Chars("1B40")), Str(Chars("1b4")), Str(Chars("1G")),
   Str(Chars("0aFf1B"))}
B64Inputs == {Undefined, Str(<<>>), Str(Chars("SGVsbG8="))}
BinaryInputs == {[t |-> "object", s |-> <<>>], [t |-> "buffer", s |-> <<27, 64, 10>>]}

\* ------------------------------------------ index.tsx: the mobile screen
\* convertToHex(str), lines 99-104: charCodeAt(0).toString(16) of every
\* character, joined; the digits are lowercase and not padded.
RECURSIVE convertToHex(_)
convertToHex(str) ==
  IF str = <<>> THEN <<>>
  ELSE ToString16(Head(str)) \o convertToHex(Tail(str))

\* lines 52-59: useState's initial stationInfo.
EmptyStationInfo ==
  [name |-> <<>>, address |-> <<>>, city |-> <<>>, state |-> <<>>,
   phone1 |-> <<>>, phone2 |-> <<>>]
\* What AsyncStorage holds under 'info', when it holds something.
StoredInfos ==
  {[name |-> Codes("Fuel Station A"), address |-> Codes("No.1 Rd"),
    city |-> Codes("Yangon"), state |-> Codes("MM"),
    phone1 |-> Codes("09-1"), phone2 |-> <<>>]}
\* The vouchers of the list, one per row: the `item` a tap prints.
NoData ==
  [dailyReportDate |-> <<>>, createAt |-> <<>>, nozzleNo |-> <<>>,
   vocono |-> <<>>, salePrice |-> <<>>, saleLiter |-> <<>>,
   totalPrice |-> <<>>, fuelType |-> <<>>]
AppVouchers ==
  {[dailyReportDate |-> Codes("2025-09-26"),
    createAt |-> Codes("2025-09-26T12:34:56.000Z"),
    nozzleNo |-> Codes("01"), vocono |-> Codes("VC1"),
    salePrice |-> Codes("2530"), saleLiter |-> Codes("10.5"),
    totalPrice |-> Codes("26565"), fuelType |-> Codes("OCTANE 95")],
   [dailyReportDate |-> Codes("2025-09-26"),
    createAt |-> Codes("2025-09-26T12:40:00.000Z"),
    nozzleNo |-> Codes("02"), vocono |-> Codes("VC2"),
    salePrice |-> Codes("2400"), saleLiter |-> Codes("2"),
    totalPrice |-> Codes("4800"), fuelType |-> Codes("DIESEL")]}

\* lines 113-149: the list `commands` of one receipt.
commands(info, data) ==
  LET stationName == convertToHex(info.name)
      location == convertToHex(info.address \o Codes(", ") \o info.city
                               \o Codes(", ") \o info.state)
      phone1Hex == convertToHex(info.phone1)
      phone2Hex == convertToHex(info.phone2)
      date == convertToHex(data.dailyReportDate)
      time == convertToHex(Slice11to19(data.createAt))
      noz == convertToHex(data.nozzleNo)
      vocono == convertToHex(data.vocono)
      basePrice == convertToHex(data.salePrice)
      liter == convertToHex(data.saleLiter)
      total == convertToHex(data.totalPrice)
      fuel == convertToHex(data.fuelType)
  IN <<Chars("1B401B6101") \o stationName \o LF,
       location \o LF,
       phone1Hex \o Chars("2C20") \o phone2Hex \o LF,
       Chars("1B6100"),
       Rule,
       Chars("564F434F4E4F202020") \o vocono \o LF,
       Chars("444154452020202020") \o date \o LF,
       Chars("54494D452020202020") \o time \o LF,
       Chars("4E4F5A5A4C45202020") \o noz \o LF,
       Rule,
       Chars("4655454C20202020") \o fuel \o LF,
       Chars("4241534520505249434520202020") \o basePrice
         \o Chars("204D4D4B202F204C495445520A"),
       Chars("53414C45204C4954455253202020") \o liter \o Chars("204C490A"),
       Chars("544F54414C202020202020202020") \o total \o Chars("204D4D4B0A"),
       Chars("202020202020202020202020202028494E434C555349564520544158290A"),
       Rule,
       Chars("1B6101"),
       Chars("5448414E4B20594F5520464F52205649534954494E470A"),
       Chars("1B6401"),
       Chars("1D564100")>>

\* `commands` for every stationInfo and voucher an invocation can hold.
CommandsOf ==
  [info \in {EmptyStationInfo} \cup StoredInfos, data \in AppVouchers |->
     commands(info, data)]

\* No invocation of sendToPrinter in this slot.
NoPrint == [pc |-> "idle", i |-> 0, info |-> EmptyStationInfo, data |-> NoData]
FreePrint(p) ==
  prints[p].pc = "idle" /\ \A q \in Prints : q < p => prints[q].pc # "idle"

\* The device keeps the order of what it receives; the last MaxWire chunks.
Received(w, chunk) ==
  LET a == Append(w, chunk)
  IN IF Len(a) > MaxWire THEN SubSeq(a, Len(a) - MaxWire + 1, Len(a)) ELSE a

\* loadStationInfo, lines 61-83: AsyncStorage.getItem('info') resolves with a
\* stored record and setStationInfo replaces the state.
loadStationInfo(stored) ==
  /\ stationInfo = EmptyStationInfo
  /\ stationInfo' = stored
  /\ UNCHANGED <<prints, wire, BRIDGE_SECRET, AUTO_OPEN, port, opening, hstate,
                 hpath, hdisc, wq, present, req, poll, alive, out, call, sigint>>

\* A tap on a voucher, line 164: sendToPrinter(item) runs to its first await,
\* SerialPortAPI.open (line 109); its closure holds the stationInfo of the
\* render the tap came from.
sendToPrinter(p, data) ==
  /\ prints[p].pc = "idle"
  /\ prints' = [prints EXCEPT ![p] =
       [NoPrint EXCEPT !.pc = "open", !.info = stationInfo, !.data = data]]
  /\ UNCHANGED <<stationInfo, wire, BRIDGE_SECRET, AUTO_OPEN, port, opening, hstate,
                 hpath, hdisc, wq, present, req, poll, alive, out, call, sigint>>

\* SerialPortAPI.open settles: lines 113-152 build `commands` and the loop
\* calls serialPort.send for the first one; a rejection goes to the catch.
OpenSettled(p, ok) ==
  /\ prints[p].pc = "open"
  /\ prints' = [prints EXCEPT ![p] =
       IF ok THEN [@ EXCEPT !.pc = "send", !.i = 1] ELSE NoPrint]
  /\ UNCHANGED <<stationInfo, wire, BRIDGE_SECRET, AUTO_OPEN, port, opening, hstate,
                 hpath, hdisc, wq, present, req, poll, alive, out, call, sigint>>

\* serialPort.send(command) settles, lines 151-156: the chunk has reached the
\* device and the loop calls send for the next command, or ends after the
\* last; a rejection goes to the catch and the rest is not sent.
SendSettled(p, ok) ==
  /\ prints[p].pc = "send"
  /\ LET cs == CommandsOf[prints[p].info, prints[p].data]
         i == prints[p].i
     IN IF ok
        THEN /\ wire' = Received(wire, [inv |-> p, i |-> i, hex |-> cs[i]])
             /\ prints' = [prints EXCEPT ![p] =
                  IF i < Len(cs) THEN [@ EXCEPT !.i = i + 1] ELSE NoPrint]
        ELSE /\ wire' = wire
             /\ prints' = [prints EXCEPT ![p] = NoPrint]
  /\ UNCHANGED <<stationInfo, BRIDGE_SECRET, AUTO_OPEN, port, opening, hstate,
                 hpath, hdisc, wq, present, req, poll, alive, out, call, sigint>>

\* -------------------------------------------------------- specification
InitWith(secrets, autos) ==
  /\ BRIDGE_SECRET \in secrets
  /\ AUTO_OPEN \in autos
  /\ port = 0
  /\ opening = FALSE
  /\ hstate = [h \in Handles |-> "none"]
  /\ hpath = [h \in Handles |-> ""]
  /\ hdisc = {}
  /\ wq = [h \in Handles |-> <<>>]
  /\ present \in SUBSET Paths
  /\ req = [r \in Reqs |-> Idle]
  \* line 86: pollForPort() runs at start and calls SerialPort.list()
  /\ poll = [t \in Ticks |->
               IF AUTO_OPEN /\ t = 1 THEN [pc |-> "listing", h |-> 0] ELSE NoTick]
  /\ alive = TRUE
  /\ out = NoResp
  /\ call = NoCall
  /\ stationInfo = EmptyStationInfo
  /\ prints = [p \in Prints |-> NoPrint]
  /\ wire = <<>>
  /\ sigint = {}

\* The callbacks of the serial handles.
Callbacks ==
  \/ \E h \in Handles, ok \in BOOLEAN : OpenDone(h, ok)
  \/ \E h \in Handles : CloseDone(h)
  \/ \E r \in Reqs, ok \in BOOLEAN : WriteDone(r, ok)
  \/ \E r \in Reqs, ok \in BOOLEAN : DrainDone(r, ok)

\* A request takes the first free slot.
FreeSlot(r) == req[r].pc = "idle" /\ \A q \in Reqs : q < r => req[q].pc # "idle"

\* The Link under concurrent open and close requests, the poll loop and the
\* devices coming and going; no secret is set.
Init == InitWith({""}, BOOLEAN)
Next ==
  \/ \E r \in Reqs, path \in {"", OtherPath} :
       FreeSlot(r) /\ OpenReq(r, NoHeaders, path, 0)
  \/ \E r \in Reqs : FreeSlot(r) /\ CloseReq(r, NoHeaders)
  \/ \E t \in Ticks : PollTimer(t)
  \/ \E t \in Ticks, ok \in BOOLEAN : PollListed(t, ok)
  \/ \E p \in Paths : DeviceRemoved(p)
  \/ \E p \in Paths : DeviceAttached(p)
  \/ \E h \in Handles, ok \in BOOLEAN : OpenDone(h, ok)
  \/ \E h \in Handles : CloseDone(h)
  \/ SIGINT
Spec == Init /\ [][Next]_vars

\* Concurrent writes with open and close requests and the devices coming and
\* going; the poll loop is off.
InitWrites == InitWith({""}, {FALSE})
NextWrites ==
  \/ \E r \in Reqs, path \in {"", OtherPath} :
       FreeSlot(r) /\ OpenReq(r, NoHeaders, path, 0)
  \/ \E r \in Reqs : FreeSlot(r) /\ CloseReq(r, NoHeaders)
  \/ \E r \in Reqs : FreeSlot(r) /\ WriteHexReq(r, NoHeaders, Str(Chars("1B40")))
  \/ \E r \in Reqs, body \in {b \in BinaryInputs : b.t = "buffer"} :
       FreeSlot(r) /\ WriteBinaryReq(r, NoHeaders, body)
  \/ \E r \in Reqs : WriteBinaryBody(r)
  \/ \E p \in Paths : DeviceRemoved(p)
  \/ \E p \in Paths : DeviceAttached(p)
  \/ Callbacks
  \/ SIGINT
SpecWrites == InitWrites /\ [][NextWrites]_vars

\* Writes and close requests beside the poll loop, which is the only caller
\* of tryOpen; the configured device is the only one and stays attached.
InitPoll == InitWith({""}, {TRUE}) /\ present = {SERIAL_PATH}
NextPoll ==
  \/ \E r \in Reqs : FreeSlot(r) /\ CloseReq(r, NoHeaders)
  \/ \E r \in Reqs : FreeSlot(r) /\ WriteHexReq(r, NoHeaders, Str(Chars("1B40")))
  \/ \E t \in Ticks : PollTimer(t)
  \/ \E t \in Ticks, ok \in BOOLEAN : PollListed(t, ok)
  \/ Callbacks
SpecPoll == InitPoll /\ [][NextPoll]_vars

\* One request at a time, of every kind, with every header and payload of the
\* input sets; the poll loop is off, the configured device stays attached and
\* the other one absent (an open, a write or a drain of the attached one may
\* fail all the same) and no SIGINT is delivered.
InitInputs == InitWith({"", Secret}, {FALSE}) /\ present = {SERIAL_PATH}
NextInputs ==
  \/ HealthReq
  \/ \E hd \in Headers, path \in OpenPaths, baud \in OpenBauds : OpenReq(1, hd, path, baud)
  \/ \E hd \in Headers : CloseReq(1, hd)
  \/ \E hd \in Headers, hex \in HexInputs : WriteHexReq(1, hd, hex)
  \/ \E hd \in Headers, b64 \in B64Inputs : WriteBase64Req(1, hd, b64)
  \/ \E hd \in Headers, body \in BinaryInputs : WriteBinaryReq(1, hd, body)
  \/ WriteBinaryBody(1)
  \/ \E hd \in Headers, body \in VoucherInputs : PrintVoucherReq(1, hd, body)
  \/ Callbacks
SpecInputs == InitInputs /\ [][NextInputs]_vars

\* The UTF-16 code units of the strings given to asciiToHex: line feed, 'A',
\* 0xFF, and 0x100, 0x1019, 0xFFFF above the one-byte range.
CodeUnits == {10, 65, 255, 256, 4121, 65535}
StrInputs == UNION {[1..n -> CodeUnits] : n \in 0..MaxStr}

\* asciiToHex applied to every string of StrInputs.
InitAscii == InitWith({""}, {FALSE}) /\ present = {}
NextAscii == \E str \in StrInputs : AsciiToHexCall(str)
SpecAscii == InitAscii /\ [][NextAscii]_vars

\* The mobile screen: taps on vouchers at any time, the stored station record
\* loading at some moment, and the open and send calls settling.
InitApp == InitWith({""}, {FALSE}) /\ present = {}
NextApp ==
  \/ \E stored \in StoredInfos : loadStationInfo(stored)
  \/ \E p \in Prints, data \in AppVouchers : FreePrint(p) /\ sendToPrinter(p, data)
  \/ \E p \in Prints, ok \in BOOLEAN : OpenSettled(p, ok)
  \/ \E p \in Prints, ok \in BOOLEAN : SendSettled(p, ok)
SpecApp == InitApp /\ [][NextApp]_vars

\* A SerialPort object that is closed and that nothing refers to any more is
\* collected; a later `new SerialPort` may take its place.
Recycle(h) ==
  /\ alive
  /\ hstate[h] = "closed"
  /\ port # h
  /\ wq[h] = <<>>
  /\ \A r \in Reqs : req[r].pc = "idle" \/ (req[r].h # h /\ req[r].wh # h /\ req[r].dh # h)
  /\ \A t \in Ticks : poll[t].h # h
  /\ hstate' = [hstate EXCEPT ![h] = "none"]
  /\ hpath' = [hpath EXCEPT ![h] = ""]
  /\ hdisc' = hdisc \ {h}
  /\ out' = NoResp
  /\ UNCHANGED <<sigint, stationInfo, prints, wire, call, BRIDGE_SECRET, AUTO_OPEN, port, opening, wq, present, req, poll, alive>>

\* The poll loop with the configured device attached for good and opening
\* whenever no other handle holds it; close requests and health queries come
\* at any time, open requests never.  Timers fire, and the list, open and
\* close calls of the handles end.
InitLive == InitWith({""}, {TRUE}) /\ SERIAL_PATH \in present
NextLive ==
  \/ \E r \in Reqs : FreeSlot(r) /\ CloseReq(r, NoHeaders)
  \/ HealthReq
  \/ \E t \in Ticks : PollTimer(t)
  \/ \E t \in Ticks : PollListed(t, TRUE)
  \/ \E h \in Handles : OpenDone(h, CanOpenOk(h))
  \/ \E h \in Handles : CloseDone(h)
  \/ \E h \in Handles : Recycle(h)
  \/ SIGINT
SpecLive ==
  /\ InitLive /\ [][NextLive]_vars
  /\ WF_vars(\E t \in Ticks : PollTimer(t))
  /\ WF_vars(\E t \in Ticks : PollListed(t, TRUE))
  /\ WF_vars(\E h \in Handles : OpenDone(h, CanOpenOk(h)))
  /\ WF_vars(\E h \in Handles : CloseDone(h))
  /\ WF_vars(\E h \in Handles : Recycle(h))

\* ================================================================ claims
WriteKinds == {"write-hex", "write-base64", "write-binary", "print-voucher"}
OpenHandles == {h \in Handles : hstate[h] = "open"}
OpeningHandles == {h \in Handles : hstate[h] = "opening"}
\* The request in slot r gets its response in this step.
Responds(r) == req[r].pc # "idle" /\ req'[r].pc = "idle"
\* port.write is called for the request in slot r in this step.
HandsBytes(r) == req[r].pc # "writing" /\ req'[r].pc = "writing"

\* C1: at every moment at most one underlying OS serial handle is open.
C1_AtMostOneOpenHandle == Cardinality(OpenHandles) <= 1

\* C2: no step taken while the Link is Opening (the in-progress flag is set)
\* or Open (the recorded handle is open) makes a new handle, so concurrent
\* open requests and poll ticks never have two acquisitions in progress.
C2_OneAcquisition ==
  /\ [][(opening \/ PortIsOpen) => Used' = Used]_vars
  /\ [](Cardinality(OpeningHandles) <= 1)
\* An open request got its answer while another caller's acquisition was in progress.
C2_Witness ==
  /\ out.kind = "open" /\ out.status = 200
  /\ opening /\ Cardinality(OpeningHandles) = 1

\* C3: a step taken while the Link is Closed (no recorded open handle) hands
\* no buffer to a serial handle: no request starts a write and no write queue grows.
C3_ClosedLinkNoWrite ==
  [][~PortIsOpen =>
       /\ \A r \in Reqs : ~HandsBytes(r)
       /\ \A h \in Handles : Len(wq'[h]) <= Len(wq[h])]_vars
\* A print-voucher command was handled while the Link was Closed.
C3_Witness ==
  /\ out.kind = "print-voucher" /\ out.status = 503
  /\ ~PortIsOpen /\ \A h \in Handles : wq[h] = <<>>

\* C4, as claimed: a write-hex, write-base64 or write-binary command that
\* passed the authorization filter and finds the Link Closed fails with
\* 'serial not open', whatever its payload.
C4_ClosedAlwaysNotOpen ==
  [][~PortIsOpen =>
       /\ \A hd \in Headers, hex \in HexInputs :
            authMiddleware(hd) /\ WriteHexReq(1, hd, hex)
              => out' = Resp("write-hex", 503, "serial not open")
       /\ \A hd \in Headers, b64 \in B64Inputs :
            authMiddleware(hd) /\ WriteBase64Req(1, hd, b64)
              => out' = Resp("write-base64", 503, "serial not open")
       /\ \A hd \in Headers, body \in BinaryInputs :
            authMiddleware(hd) /\ WriteBinaryReq(1, hd, body)
              => \/ out' = Resp("write-binary", 503, "serial not open")
                 \/ req'[1].pc = "reading"
       /\ WriteBinaryBody(1) => out' = Resp("write-binary", 503, "serial not open")]_vars

\* C4, amended: such a command fails with 'serial not open' when its payload
\* passes the handler's validation, and with the validation's own error
\* (400) when it does not; for write-binary the Link is looked at when the
\* handler runs, once the octet-stream body has been read.
C4_ClosedNotOpenIfValid ==
  [][~PortIsOpen =>
       /\ \A hd \in Headers, hex \in HexInputs :
            authMiddleware(hd) /\ WriteHexReq(1, hd, hex)
              => out' = IF hex.t = "string" /\ Len(hex.s) >= 1
                           /\ Len(hex.s) % 2 = 0
                           /\ \A i \in 1..Len(hex.s) : IsHexChar(hex.s[i])
                        THEN Resp("write-hex", 503, "serial not open")
                        ELSE Resp("write-hex", 400, "invalid hex")
       /\ \A hd \in Headers, b64 \in B64Inputs :
            authMiddleware(hd) /\ WriteBase64Req(1, hd, b64)
              => out' = IF b64.t = "string" /\ b64.s # <<>>
                        THEN Resp("write-base64", 503, "serial not open")
                        ELSE Resp("write-base64", 400, "missing b64")
       /\ \A hd \in Headers, body \in BinaryInputs :
            authMiddleware(hd) /\ WriteBinaryReq(1, hd, body)
              => IF body.t = "buffer"
                 THEN req'[1].pc = "reading" /\ out' = NoResp
                 ELSE out' = Resp("write-binary", 400, "missing binary body")
       /\ WriteBinaryBody(1) => out' = Resp("write-binary", 503, "serial not open")]_vars
\* A write command was refused with 'serial not open' on a Closed Link.
C4_Witness ==
  /\ out.kind \in {"write-hex", "write-base64", "write-binary"}
  /\ out.status = 503 /\ out.error = "serial not open"
  /\ ~PortIsOpen

\* C5: at most one write is in flight: between the call of port.write for one
\* request and the end of its drain, port.write is called for no other request.
InFlight(r) == req[r].pc \in {"writing", "write_stuck", "drain_wait", "draining"}
C5_OneWriteInFlight == Cardinality({r \in Reqs : InFlight(r)}) <= 1

\* C6: a write that was in flight on an open handle when its device was
\* removed is answered with a failure, and a health query made once that
\* answer is out does not report the Link open on the handle of the removed
\* device.
C6_DisconnectFailsWrite ==
  [][\A r \in Reqs :
       req[r].cut /\ Responds(r) =>
         /\ out'.status = 500
         /\ ~(port' = req[r].wh /\ Health'.serialOpen)]_vars

\* C7: every close request is answered with success and leaves the Link
\* Closed, whether the Link was Open or already Closed, and a close that finds
\* the Link Closed changes nothing.
C7_CloseIdempotent ==
  /\ [](out.kind = "close" => out.status = 200 /\ ~PortIsOpen)
  /\ [][\A r \in Reqs :
          ~PortIsOpen /\ CloseReq(r, NoHeaders) =>
             /\ out'.status = 200
             /\ UNCHANGED <<port, opening, hstate, req>>]_vars
\* A close was answered with success after it released an open handle.
C7_Witness ==
  /\ out.kind = "close" /\ out.status = 200
  /\ port = 0 /\ \E h \in Handles : hstate[h] = "closed"

\* C8: an open request whose acquisition fails (its handle goes from opening
\* to closed without having been open) is answered with an error, never with
\* a success response.
C8_FailedOpenIsError ==
  [][\A r \in Reqs :
       /\ req[r].pc = "await_open"
       /\ hstate[req[r].h] = "opening" /\ hstate'[req[r].h] = "closed"
       /\ Responds(r)
       => out'.status # 200]_vars

\* C9: a write is answered with success only by the drain callback of a
\* request whose write callback ran before without error, the drain that
\* completed is the drain of the handle the bytes were written to, the count
\* reported is the length of the buffer handed to the handle, and the buffer
\* of the hex text 1B40 is the two bytes 1B 40.
AfterCallback == {"draining", "drain_wait", "thrown"}
C9_SuccessAfterDrain ==
  [][\A r \in Reqs :
       /\ Responds(r) /\ out'.status = 200 /\ out'.kind \in WriteKinds
            => /\ req[r].pc = "draining"
               /\ req[r].dh = req[r].wh
               /\ out'.bytes = Len(req[r].buf)
       /\ req'[r].pc \in AfterCallback /\ req[r].pc \notin AfterCallback
            => /\ req[r].pc = "writing"
               /\ wq[req[r].wh] # <<>> /\ Head(wq[req[r].wh]) = r
               /\ req'[r].buf = req[r].buf
       /\ WriteHexReq(r, NoHeaders, Str(Chars("1B40"))) /\ HandsBytes(r)
            => req'[r].buf = <<27, 64>>]_vars

\* C10: with a shared secret set, an open, close, write-hex, write-base64,
\* write-binary or print-voucher request that carries the secret in neither
\* header is answered 401 and changes nothing of the Link and its write
\* queues; with no secret set, no request is answered 401.
Presents(hd) ==
  \/ hd.xbs \in {Secret, "Bearer " \o Secret}
  \/ hd.authz \in {Secret, "Bearer " \o Secret}
Untouched == UNCHANGED <<port, opening, hstate, hpath, hdisc, wq, present, req>>
C10_Unauthorized401 ==
  [][/\ BRIDGE_SECRET = "" => out'.status # 401
     /\ \A hd \in Headers :
          BRIDGE_SECRET # "" /\ ~Presents(hd) =>
            /\ \A path \in OpenPaths, baud \in OpenBauds :
                 OpenReq(1, hd, path, baud) => out' = Unauthorized("open") /\ Untouched
            /\ CloseReq(1, hd) => out' = Unauthorized("close") /\ Untouched
            /\ \A hex \in HexInputs :
                 WriteHexReq(1, hd, hex) => out' = Unauthorized("write-hex") /\ Untouched
            /\ \A b64 \in B64Inputs :
                 WriteBase64Req(1, hd, b64)
                   => out' = Unauthorized("write-base64") /\ Untouched
            /\ \A body \in BinaryInputs :
                 WriteBinaryReq(1, hd, body)
                   => out' = Unauthorized("write-binary") /\ Untouched
            /\ \A body \in VoucherInputs :
                 PrintVoucherReq(1, hd, body)
                   => out' = Unauthorized("print-voucher") /\ Untouched]_vars
\* A write on an Open Link was answered 401 for want of the secret.
C10_Witness ==
  /\ BRIDGE_SECRET # "" /\ out.status = 401 /\ out.kind = "write-hex"
  /\ PortIsOpen /\ wq[port] = <<>>

\* C11: at most one invocation of pollForPort exists at any time, scheduled
\* or running: the next one is scheduled only as the running one ends, after
\* the open attempt it awaited.
LiveTicks == {t \in Ticks : poll[t].pc # "none"}
C11_OneTick ==
  /\ [](Cardinality(LiveTicks) <= 1)
  /\ [][\A t \in Ticks :
          poll'[t].pc = "timer" /\ poll[t].pc # "timer" =>
            /\ poll[t].pc \in {"listing", "await_open"}
            /\ poll[t].pc = "await_open" => hstate'[poll[t].h] \in {"open", "closed"}]_vars
\* A tick is suspended in its open attempt and no other is scheduled.
C11_Witness ==
  \E t \in Ticks :
    /\ poll[t].pc = "await_open" /\ hstate[poll[t].h] = "opening"
    /\ LiveTicks = {t}

\* C12: with auto-open on, whenever the Link is not Open while the configured
\* device is attached and no handle holds it, the Link is Open some time
\* later, with no open request made, unless the process has exited by then.
C12_ProbeOpens ==
  (/\ alive /\ AUTO_OPEN /\ ~PortIsOpen
   /\ SERIAL_PATH \in present
   /\ \A g \in OsOpen : hpath[g] # SERIAL_PATH) ~> (PortIsOpen \/ ~alive)

\* C13: an open response with opened = true carries the path and the baud
\* rate of the handle that is open and recorded in port.
C13_OpenedReportsCurrent ==
  out.kind = "open" /\ out.opened =>
    /\ port # 0 /\ hstate[port] = "open"
    /\ out.path = hpath[port]
    /\ out.baud = HandleBaud(port)

\* The string is made of hex digits only.
AllHexDigits(v) == v.t = "string" /\ \A i \in 1..Len(v.s) : IsHexChar(v.s[i])
\* write-hex handed the handle Len/2 bytes, each the value of its two digits.
HandsHalf(hex) ==
  /\ HandsBytes(1)
  /\ Len(req'[1].buf) = Len(hex.s) \div 2
  /\ \A i \in 1..Len(req'[1].buf) :
       req'[1].buf[i] = 16 * HexVal(hex.s[2 * i - 1]) + HexVal(hex.s[2 * i])
  /\ wq'[port] = Append(wq[port], 1)
InvalidHex ==
  /\ out' = Resp("write-hex", 400, "invalid hex")
  /\ UNCHANGED <<wq, req>>

\* C14, as claimed: on an Open Link, write-hex hands the handle length / 2
\* bytes for every string of an even number of hex digits, and rejects every
\* other string as invalid, handing nothing over.
C14_EvenHexTransmitsHalf ==
  [][PortIsOpen =>
       \A hd \in Headers, hex \in HexInputs :
         authMiddleware(hd) /\ WriteHexReq(1, hd, hex) =>
           IF AllHexDigits(hex) /\ Len(hex.s) % 2 = 0
           THEN HandsHalf(hex) ELSE InvalidHex]_vars

\* C14, amended: the same for every non-empty string of an even number of hex
\* digits; the empty string is rejected as invalid like the odd and non-hex ones.
C14_NonEmptyEvenHexTransmitsHalf ==
  [][PortIsOpen =>
       \A hd \in Headers, hex \in HexInputs :
         authMiddleware(hd) /\ WriteHexReq(1, hd, hex) =>
           IF AllHexDigits(hex) /\ Len(hex.s) % 2 = 0 /\ Len(hex.s) > 0
           THEN HandsHalf(hex) ELSE InvalidHex]_vars
\* The three bytes of 0aFf1B are with the handle.
C14_Witness ==
  /\ req[1].pc = "writing" /\ req[1].kind = "write-hex"
  /\ req[1].buf = <<10, 255, 27>>

\* The body supplies no field: it is empty, or what it holds is empty.
SuppliesNoField(body) == \A k \in DOMAIN body : DOMAIN body[k] = {}
Contains(buf, sub) ==
  \E i \in 0..(Len(buf) - Len(sub)) : SubSeq(buf, i + 1, i + Len(sub)) = sub

\* C15: a print-voucher request on an Open Link whose body supplies no field
\* (no body, or station = {} and voucher = {}) hands the handle a non-empty
\* buffer holding the default station name and voucher number, and its
\* response is to say usedDefaults = true.
C15_NoFieldUsesDefaults ==
  [][PortIsOpen =>
       \A hd \in Headers, body \in VoucherInputs :
         authMiddleware(hd) /\ SuppliesNoField(body) /\ PrintVoucherReq(1, hd, body) =>
           /\ HandsBytes(1)
           /\ req'[1].buf # <<>>
           /\ Contains(req'[1].buf, Codes("My Station"))
           /\ Contains(req'[1].buf, Codes("VC123456"))
           /\ req'[1].usedDefaults]_vars

\* C16: a write handed to the handle is never left without an outcome: its
\* callback has not thrown, and it does not wait for an 'open' event of a
\* handle that is closing or closed, which never comes.  A handle the SIGINT
\* handler is closing is left aside: the process is about to exit.
NoOutcome(r) ==
  \/ req[r].pc = "thrown"
  \/ /\ req[r].pc = "drain_wait" /\ req[r].dh \notin sigint
     /\ hstate[req[r].dh] \in {"closing", "closed"}
  \/ /\ req[r].pc = "write_stuck" /\ req[r].wh \notin sigint
     /\ hstate[req[r].wh] \in {"closing", "closed"}
C16_WriteGetsOutcome == \A r \in Reqs : ~NoOutcome(r)

\* C17: when an acquisition fails (its handle goes from opening to closed)
\* the recorded handle is cleared and the in-progress flag is reset, so the
\* next tryOpen would attempt again; and the flag is set only while a handle
\* is opening.
C17_FailedOpenLeavesClosed ==
  /\ [][\A h \in Handles :
          hstate[h] = "opening" /\ hstate'[h] = "closed" =>
            port' = 0 /\ ~opening' /\ ~TryOpenReturns']_vars
  /\ [](opening => OpeningHandles # {})
\* An open request was answered after its acquisition failed; nothing is open.
C17_Witness ==
  /\ out.kind = "open" /\ ~out.opened
  /\ port = 0 /\ ~opening
  /\ \E h \in Handles : hstate[h] = "closed"
  /\ \A h \in Handles : hstate[h] \in {"none", "closed"}

\* C18: in the step an asynchronous error of an open handle is reported (the
\* failed write after which the serial library closes the handle), and in
\* the step that handle is reported closed, the Link becomes Closed with no
\* request involved in clearing it: the handle is no longer the recorded
\* one, and when it was the recorded one health reports not open.
ReportedErrored(h) == h \notin hdisc /\ h \in hdisc'
ReportedClosed(h) == h \in hdisc /\ hstate[h] = "closing" /\ hstate'[h] = "closed"
ReleasedByClose(h) ==
  hstate[h] \in {"closing", "closed"} /\ h \notin hdisc /\ h \notin sigint
C19_CloseAfterFlush ==
  \A r \in Reqs : InFlight(r) => ~ReleasedByClose(req[r].wh)

\* C20: asciiToHex gives two uppercase hex digits for every character, so
\* its result is twice as long as its argument, and the receipt assembled
\* with that argument as station name has even length; for every code unit,
\* those above 0xFF included.
C20_TwoDigitsPerChar ==
  call.done =>
    /\ Len(call.hex) = 2 * Len(call.str)
    /\ \A i \in 1..Len(call.hex) : \E k \in 1..16 : HexUpper[k] = call.hex[i]
    /\ Len(fullHex([station |-> [name |-> call.str]])) % 2 = 0

\* C21: a print-voucher request on an Open Link whose createAt is shorter than
\* the 19 characters that hold HH:MM:SS at positions 11 to 18 is refused as an
\* invalid field (400) and hands nothing to the handle.
C21_ShortCreateAtInvalidField ==
  [][PortIsOpen =>
       \A hd \in Headers, body \in VoucherInputs :
         /\ authMiddleware(hd)
         /\ Len(createAt(body)) < 19
         /\ PrintVoucherReq(1, hd, body)
         => /\ out'.kind = "print-voucher" /\ out'.status = 400
            /\ ~HandsBytes(1)
            /\ UNCHANGED wq]_vars

\* C22: the chunks of one receipt reach the device contiguously and in
\* template order: every chunk but the first of a receipt comes right behind
\* the chunk before it of the same invocation, whatever invocations overlap.
C22_ReceiptContiguous ==
  \A k \in 1..(Len(wire) - 1) :
    wire[k + 1].i > 1 =>
      wire[k].inv = wire[k + 1].inv /\ wire[k].i = wire[k + 1].i - 1

\* C23: every handle that is open is the handle recorded in port, so close,
\* write and health reach it; and the 'close' event of a handle that is no
\* longer the recorded one leaves the record of the newer handle alone.
C23_OpenHandleIsRecorded ==
  /\ [](\A h \in OpenHandles : port = h)
  /\ [][\A h \in Handles :
          hstate[h] = "closing" /\ hstate'[h] = "closed" /\ port \notin {0, h}
            => port' = port]_vars

\* C24: when the callback of a write calls drain, the recorded handle is the
\* handle the bytes were written to: it is not null and not another handle,
\* so the drain runs on the written handle.
C24_DrainOnWrittenHandle ==
  [][\A r \in Reqs :
       req[r].pc = "writing" /\ req'[r].pc \in {"thrown", "drain_wait", "draining"}
         => /\ port # 0 /\ port = req[r].wh
            /\ req'[r].dh = req[r].wh]_vars

====
